---- MODULE Spec2Model ----
(***************************************************************************)
(* Model of the two script reports of credit_debit_note:                   *)
(*   - "Sales Analaytic - Custom Report" (execute, validate_filters,       *)
(*     get_period_date_ranges, get_aggregated_rows,                        *)
(*     build_hierarchical_rows, get_chart_data);                           *)
(*   - "Most Selling Report - Stock Report" (execute, get_data).           *)
(* Dates are <<year, month, day>> triples; amounts are integers; Python    *)
(* dicts are functions over a set of string keys; Python None and SQL NULL *)
(* are the value None.                                                     *)
(***************************************************************************)
EXTENDS Integers, Sequences, FiniteSets, TLC

VARIABLES
    pc,           \* position of the sales-analytics execute()
    filters,      \* its filters dict
    db,           \* submitted/draft sales invoice lines joined to their customer
    period_list,  \* local of execute()
    columns,      \* local of execute()
    agg_rows,     \* local of execute()
    data,         \* local of execute()
    chart,        \* local of execute()
    result,       \* what execute() returned, <<>> while it has not returned
    sql_calls,    \* number of frappe.db.sql calls made by the current request
    spc,          \* position of the stock report's execute()
    sfilters,     \* its filters dict
    sdb,          \* sales invoice lines joined to their item
    squery,       \* the query text get_data built, as its variable parts
    srows         \* the rows get_data returned

vars == <<pc, filters, db, period_list, columns, agg_rows, data, chart, result,
          sql_calls, spc, sfilters, sdb, squery, srows>>

salesVars == <<pc, filters, db, period_list, columns, agg_rows, data, chart, result,
               sql_calls>>
stockVars == <<spc, sfilters, sdb, squery, srows>>

None == "<None>"
EmptyDict == [k \in {} |-> None]

Has(d, k) == k \in DOMAIN d
\* dict.get(k, default)
Get(d, k, default) == IF k \in DOMAIN d THEN d[k] ELSE default

RECURSIVE SumSeq(_)
SumSeq(s) == IF s = <<>> THEN 0 ELSE Head(s) + SumSeq(Tail(s))

(***************************************************************************)
(* Calendar: datetime.date, relativedelta                                  *)
(***************************************************************************)
IsLeap(y) == (y % 4 = 0 /\ y % 100 # 0) \/ y % 400 = 0

DaysInMonth(y, m) ==
    IF m = 2 THEN (IF IsLeap(y) THEN 29 ELSE 28)
    ELSE IF m \in {4, 6, 9, 11} THEN 30 ELSE 31

IsDate(t) == t[2] \in 1..12 /\ t[3] \in 1..DaysInMonth(t[1], t[2])

DateLT(a, b) ==
    \/ a[1] < b[1]
    \/ a[1] = b[1] /\ a[2] < b[2]
    \/ a[1] = b[1] /\ a[2] = b[2] /\ a[3] < b[3]

DateLE(a, b) == a = b \/ DateLT(a, b)

\* d - relativedelta(days=1)
SubDay(t) ==
    IF t[3] > 1 THEN <<t[1], t[2], t[3] - 1>>
    ELSE IF t[2] > 1 THEN <<t[1], t[2] - 1, DaysInMonth(t[1], t[2] - 1)>>
    ELSE <<t[1] - 1, 12, 31>>

\* d + timedelta(days=1)
NextDay(t) ==
    IF t[3] < DaysInMonth(t[1], t[2]) THEN <<t[1], t[2], t[3] + 1>>
    ELSE IF t[2] < 12 THEN <<t[1], t[2] + 1, 1>>
    ELSE <<t[1] + 1, 1, 1>>

Min(a, b) == IF a < b THEN a ELSE b

\* d + relativedelta(months=months): the month moves, the day is clamped to
\* the length of the target month
add_months(d, months) ==
    LET idx == (d[2] - 1) + months
        y   == d[1] + (idx \div 12)
        m   == (idx % 12) + 1
    IN  <<y, m, Min(d[3], DaysInMonth(y, m))>>

MonthAbbr(m) ==
    <<"Jan", "Feb", "Mar", "Apr", "May", "Jun",
      "Jul", "Aug", "Sep", "Oct", "Nov", "Dec">>[m]

\* start.strftime("%b_%Y")
PeriodKey(d) == MonthAbbr(d[2]) \o "_" \o ToString(d[1])
\* start.strftime("%b %Y")
PeriodLabel(d) == MonthAbbr(d[2]) \o " " \o ToString(d[1])

\* frappe.utils.getdate on a value that is already a date
getdate(d) == d

(***************************************************************************)
(* Sales analytics: validation and period bucketer                         *)
(***************************************************************************)
Periods == {"Monthly", "Quarterly", "Half Yearly", "Yearly"}

\* increments.get(period, 1)
Increment(period) ==
    IF period = "Monthly" THEN 1
    ELSE IF period = "Quarterly" THEN 3
    ELSE IF period = "Half Yearly" THEN 6
    ELSE IF period = "Yearly" THEN 12
    ELSE 1

\* mutant: the last bucket is not clamped to to_date
BucketEndUnclamped(start, step, to_date) == SubDay(add_months(start, step))

\* the end of the bucket that starts at start
BucketEnd(start, step, to_date) ==
    LET end == SubDay(add_months(start, step))
    IN  IF DateLT(to_date, end) THEN to_date ELSE end

\* the while loop of get_period_date_ranges
RECURSIVE PeriodLoop(_, _, _, _)
PeriodLoop(start, to_date, step, periods) ==
    IF ~DateLE(start, to_date) THEN periods
    ELSE PeriodLoop(add_months(start, step), to_date, step,
                    Append(periods, [key       |-> PeriodKey(start),
                                     label     |-> PeriodLabel(start),
                                     from_date |-> start,
                                     to_date   |-> BucketEnd(start, step, to_date)]))

get_period_date_ranges(period, from_date, to_date) ==
    PeriodLoop(getdate(from_date), getdate(to_date), Increment(period), <<>>)

\* mutant: the order of the two dates is not checked
validate_filters_no_order(f) ==
    /\ Has(f, "from_date") /\ Has(f, "to_date")
    /\ ~(Has(f, "period") /\ f["period"] \notin Periods)

\* TRUE iff validate_filters returns without frappe.throw
validate_filters(f) ==
    /\ Has(f, "from_date") /\ Has(f, "to_date")
    /\ ~DateLT(getdate(f["to_date"]), getdate(f["from_date"]))
    /\ ~(Has(f, "period") /\ f["period"] \notin Periods)

(***************************************************************************)
(* Sales analytics: columns                                                *)
(***************************************************************************)
RECURSIVE PeriodColumns(_)
PeriodColumns(pl) ==
    IF pl = <<>> THEN <<>>
    ELSE <<[label |-> Head(pl).label, fieldname |-> Head(pl).key]>>
         \o PeriodColumns(Tail(pl))

get_columns(pl) ==
    <<[label |-> "Customer Group", fieldname |-> "customer_group"],
      [label |-> "Sub Group", fieldname |-> "custom_sub_group"]>>
    \o PeriodColumns(pl)
    \o <<[label |-> "Total", fieldname |-> "total"]>>

(***************************************************************************)
(* Sales analytics: aggregation query                                      *)
(***************************************************************************)
\* value_expr: si_item.amount or si_item.qty
ValueExpr(f, line) ==
    IF Get(f, "value_quantity", "Value") = "Value" THEN line.amount ELSE line.qty

\* filters.get(k) is truthy
Truthy(f, k) == Has(f, k) /\ f[k] # None /\ f[k] # ""

\* mutant: the overall posting-date range is left out of the WHERE clause
WhereClauseNoRange(f, line) ==
    /\ line.docstatus = 1
    /\ Truthy(f, "customer_group") => line.customer_group = f["customer_group"]

\* the WHERE clause
WhereClause(f, line) ==
    /\ line.docstatus = 1
    /\ DateLE(f["from_date"], line.posting_date)
    /\ DateLE(line.posting_date, f["to_date"])
    /\ Truthy(f, "customer_group") => line.customer_group = f["customer_group"]

ScannedLines(f, lines) == {l \in lines : WhereClause(f, l)}

\* SUM(expr) over a set of joined lines, each line counted once
RECURSIVE SumLines(_, _)
SumLines(lines, f) ==
    IF lines = {} THEN 0
    ELSE LET l == CHOOSE x \in lines : TRUE
         IN  ValueExpr(f, l) + SumLines(lines \ {l}, f)

\* SUM(CASE WHEN si.posting_date BETWEEN p_from_i AND p_to_i THEN val ELSE 0 END)
PeriodSum(lines, f, p) ==
    SumLines({l \in lines : DateLE(p.from_date, l.posting_date)
                            /\ DateLE(l.posting_date, p.to_date)}, f)

\* the bucket columns of one result row, as_dict=True: a later column with the
\* same alias replaces an earlier one
RECURSIVE PeriodCols(_, _, _)
PeriodCols(lines, f, pl) ==
    IF pl = <<>> THEN EmptyDict
    ELSE LET n == Len(pl)
             p == pl[n]
         IN  (p.key :> PeriodSum(lines, f, p)) @@ PeriodCols(lines, f, SubSeq(pl, 1, n - 1))

\* ORDER BY position of a label: NULL first, then the strings in collation order
LabelRank(x) ==
    IF x = None THEN 0
    ELSE IF x = "" THEN 1
    ELSE IF x = "(No Sub Group)" THEN 2
    ELSE IF x = "A" THEN 3
    ELSE IF x = "B" THEN 4
    ELSE IF x = "Retail" THEN 5
    ELSE IF x = "Undefined" THEN 6
    ELSE 7

GroupLT(a, b) ==
    \/ LabelRank(a[1]) < LabelRank(b[1])
    \/ a[1] = b[1] /\ LabelRank(a[2]) < LabelRank(b[2])

\* GROUP BY c.customer_group, c.custom_sub_group ORDER BY the same
RECURSIVE SortGroups(_)
SortGroups(groups) ==
    IF groups = {} THEN <<>>
    ELSE LET g == CHOOSE x \in groups : \A y \in groups \ {x} : GroupLT(x, y)
         IN  <<g>> \o SortGroups(groups \ {g})

AggRow(f, pl, lines, g) ==
    LET mine == {l \in lines : l.customer_group = g[1] /\ l.custom_sub_group = g[2]}
    IN  PeriodCols(mine, f, pl)
        @@ [customer_group |-> g[1], custom_sub_group |-> g[2],
            total |-> SumLines(mine, f)]

get_aggregated_rows(f, pl, lines) ==
    LET scanned == ScannedLines(f, lines)
        groups  == SortGroups({<<l.customer_group, l.custom_sub_group>> : l \in scanned})
    IN  [i \in 1..Len(groups) |-> AggRow(f, pl, scanned, groups[i])]

(***************************************************************************)
(* Sales analytics: build_hierarchical_rows                                *)
(* An insertion-ordered dict is [keys |-> <<k1, k2, ...>>, val |-> [k -> v]]*)
(***************************************************************************)
EmptyODict == [keys |-> <<>>, val |-> EmptyDict]

InKeys(od, k) == \E i \in 1..Len(od.keys) : od.keys[i] = k

\* od.setdefault(k, v)
SetDefault(od, k, v) ==
    IF InKeys(od, k) THEN od
    ELSE [keys |-> Append(od.keys, k), val |-> (k :> v) @@ od.val]

\* od[k] = v for a key that is present
Assign(od, k, v) == [od EXCEPT !.val = (k :> v) @@ od.val]

\* x or default
OrDefault(x, default) == IF x = None \/ x = "" THEN default ELSE x

GroupLabel(r) == OrDefault(Get(r, "customer_group", None), "Undefined")
SubGroupLabel(r) == OrDefault(Get(r, "custom_sub_group", None), "(No Sub Group)")

PeriodKeys(pl) == {pl[i].key : i \in 1..Len(pl)}

\* {p["key"]: r.get(p["key"], 0.0) for p in period_list}
RowPeriods(r, pl) == [k \in PeriodKeys(pl) |-> Get(r, k, 0)]

\* one iteration of the first loop
NestRow(nested, r, pl) ==
    LET cg == GroupLabel(r)
        sg == SubGroupLabel(r)
        n1 == SetDefault(nested, cg, EmptyODict)
        s1 == SetDefault(n1.val[cg], sg, EmptyDict)
        s2 == Assign(s1, sg, [periods |-> RowPeriods(r, pl),
                              total   |-> Get(r, "total", 0)])
    IN  Assign(n1, cg, s2)

RECURSIVE BuildNested(_, _, _)
BuildNested(rows, pl, nested) ==
    IF rows = <<>> THEN nested
    ELSE BuildNested(Tail(rows), pl, NestRow(nested, Head(rows), pl))

\* mutant: the first subgroup is left out of the group total
SumTotalsSkipFirst(subgroups, keys) ==
    IF keys = <<>> THEN 0
    ELSE LET RECURSIVE rest(_)
             rest(ks) == IF ks = <<>> THEN 0
                         ELSE subgroups.val[Head(ks)].total + rest(Tail(ks))
         IN  rest(Tail(keys))

\* sum(f(sg_data) for sg_data in subgroups.values())
RECURSIVE SumTotals(_, _)
SumTotals(subgroups, keys) ==
    IF keys = <<>> THEN 0
    ELSE subgroups.val[Head(keys)].total + SumTotals(subgroups, Tail(keys))

RECURSIVE SumPeriod(_, _, _)
SumPeriod(subgroups, keys, p_key) ==
    IF keys = <<>> THEN 0
    ELSE Get(subgroups.val[Head(keys)].periods, p_key, 0)
         + SumPeriod(subgroups, Tail(keys), p_key)

GroupRow(cg, subgroups) ==
    LET p_keys == IF subgroups.keys = <<>> THEN {}
                  ELSE DOMAIN subgroups.val[subgroups.keys[1]].periods
    IN  [k \in p_keys |-> SumPeriod(subgroups, subgroups.keys, k)]
        @@ [customer_group |-> cg, custom_sub_group |-> "",
            total |-> SumTotals(subgroups, subgroups.keys), indent |-> 0]

ChildRow(sg, sg_data) ==
    sg_data.periods
    @@ [customer_group |-> "", custom_sub_group |-> sg,
        total |-> sg_data.total, indent |-> 1]

RECURSIVE ChildRows(_, _)
ChildRows(subgroups, keys) ==
    IF keys = <<>> THEN <<>>
    ELSE <<ChildRow(Head(keys), subgroups.val[Head(keys)])>>
         \o ChildRows(subgroups, Tail(keys))

\* the second loop
RECURSIVE Assemble(_, _)
Assemble(nested, keys) ==
    IF keys = <<>> THEN <<>>
    ELSE LET subgroups == nested.val[Head(keys)]
         IN  <<GroupRow(Head(keys), subgroups)>>
             \o ChildRows(subgroups, subgroups.keys)
             \o Assemble(nested, Tail(keys))

build_hierarchical_rows(rows, pl) ==
    LET nested == BuildNested(rows, pl, EmptyODict)
    IN  Assemble(nested, nested.keys)

(***************************************************************************)
(* Sales analytics: get_chart_data                                         *)
(***************************************************************************)
\* mutant: only the subgroup rows are summed
RECURSIVE ColumnSumLeaves(_, _)
ColumnSumLeaves(rows, col) ==
    IF rows = <<>> THEN 0
    ELSE (IF Head(rows).indent = 1 THEN Get(Head(rows), col, 0) ELSE 0)
         + ColumnSumLeaves(Tail(rows), col)

\* sum(row.get(col, 0.0) or 0.0 for row in data)
RECURSIVE ColumnSum(_, _)
ColumnSum(rows, col) ==
    IF rows = <<>> THEN 0
    ELSE Get(Head(rows), col, 0) + ColumnSum(Tail(rows), col)

get_chart_data(rows, pl) ==
    [labels |-> [i \in 1..Len(pl) |-> pl[i].label],
     values |-> [i \in 1..Len(pl) |-> ColumnSum(rows, pl[i].key)]]

NoChart == [labels |-> <<>>, values |-> <<>>]

(***************************************************************************)
(* Sales analytics: inputs                                                 *)
(***************************************************************************)
MaxLines == 3
YearSpan == 1

Years == 2024..(2024 + YearSpan)

\* an optional filter: absent, or one of the values
Opt(k, values) == {EmptyDict} \cup {k :> v : v \in values}

ReqDates == {<<2024, 1, 31>>, <<2024, 3, 1>>, <<2025, 2, 28>>}

ReqFilters ==
    {a @@ b @@ c @@ d @@ e :
        a \in Opt("from_date", ReqDates),
        b \in Opt("to_date", ReqDates),
        c \in Opt("period", Periods \cup {"Weekly"}),
        d \in Opt("value_quantity", {"Qty"}),
        e \in Opt("customer_group", {"Retail"})}

Line(ds, date, cg, sg, amt) ==
    [docstatus |-> ds, posting_date |-> date, customer_group |-> cg,
     custom_sub_group |-> sg, amount |-> amt, qty |-> 3 * amt]

LinePool ==
    {Line(1, <<2024, 1, 31>>, None, "A", 1),
     Line(1, <<2024, 4, 30>>, "", "A", 2),
     Line(1, <<2024, 1, 31>>, "Retail", "A", 4),
     Line(1, <<2024, 2, 29>>, "Retail", "A", 8),
     Line(1, <<2024, 4, 30>>, "Retail", None, 16),
     Line(1, <<2024, 1, 31>>, "Retail", "", 32),
     Line(1, <<2025, 2, 28>>, "Undefined", "A", 64),
     Line(0, <<2024, 1, 31>>, "Retail", "A", 128)}

Databases == {ls \in SUBSET LinePool : Cardinality(ls) <= MaxLines}

\* the date ranges the bucketer is exercised on
FromDays == 1..31
ToDays == {1, 14, 15, 27, 28, 29, 30, 31}
DatesOn(days) ==
    {t \in Years \X (1..12) \X days : IsDate(t)}

WideFilters ==
    {w \in [from_date : DatesOn(FromDays), to_date : DatesOn(ToDays), period : Periods] :
        DateLE(w.from_date, w.to_date)}

(***************************************************************************)
(* Sales analytics: execute(), one action per statement                    *)
(***************************************************************************)
SalesLocalsClear ==
    /\ period_list' = <<>>
    /\ columns' = <<>>
    /\ agg_rows' = <<>>
    /\ data' = <<>>
    /\ chart' = NoChart
    /\ result' = <<>>
    /\ sql_calls' = 0

\* the report host calls execute(filters)
Request ==
    /\ pc = "idle"
    /\ \E f \in ReqFilters : filters' = f
    /\ pc' = "validate"
    /\ SalesLocalsClear
    /\ UNCHANGED <<db, stockVars>>

\* validate_filters(filters): returns, or frappe.throw ends the request
Validate ==
    /\ pc = "validate"
    /\ pc' = IF validate_filters(filters) THEN "periods" ELSE "error"
    /\ UNCHANGED <<filters, db, period_list, columns, agg_rows, data, chart, result,
                   sql_calls, stockVars>>

GetPeriods ==
    /\ pc = "periods"
    /\ period_list' = get_period_date_ranges(Get(filters, "period", "Monthly"),
                                             filters["from_date"], filters["to_date"])
    /\ pc' = "columns"
    /\ UNCHANGED <<filters, db, columns, agg_rows, data, chart, result, sql_calls,
                   stockVars>>

GetColumns ==
    /\ pc = "columns"
    /\ columns' = get_columns(period_list)
    /\ pc' = "query"
    /\ UNCHANGED <<filters, db, period_list, agg_rows, data, chart, result, sql_calls,
                   stockVars>>

\* get_aggregated_rows: the one frappe.db.sql call
Query ==
    /\ pc = "query"
    /\ agg_rows' = get_aggregated_rows(filters, period_list, db)
    /\ sql_calls' = sql_calls + 1
    /\ pc' = "rows"
    /\ UNCHANGED <<filters, db, period_list, columns, data, chart, result, stockVars>>

BuildRows ==
    /\ pc = "rows"
    /\ data' = build_hierarchical_rows(agg_rows, period_list)
    /\ pc' = "chart"
    /\ UNCHANGED <<filters, db, period_list, columns, agg_rows, chart, result,
                   sql_calls, stockVars>>

\* get_chart_data and the return statement
ChartAndReturn ==
    /\ pc = "chart"
    /\ chart' = get_chart_data(data, period_list)
    /\ result' = <<columns, data, None, get_chart_data(data, period_list)>>
    /\ pc' = "done"
    /\ UNCHANGED <<filters, db, period_list, columns, agg_rows, data, sql_calls,
                   stockVars>>

\* the request is over (returned or raised); the host may call again
Finish ==
    /\ pc \in {"done", "error"}
    /\ pc' = "idle"
    /\ filters' = EmptyDict
    /\ SalesLocalsClear
    /\ UNCHANGED <<db, stockVars>>

StockIdle ==
    /\ spc = "idle"
    /\ sfilters = EmptyDict
    /\ sdb = {}
    /\ squery = <<>>
    /\ srows = <<>>

SalesIdle ==
    /\ filters = EmptyDict
    /\ period_list = <<>>
    /\ columns = <<>>
    /\ agg_rows = <<>>
    /\ data = <<>>
    /\ chart = NoChart
    /\ result = <<>>
    /\ sql_calls = 0

Init ==
    /\ pc = "idle"
    /\ SalesIdle
    /\ db \in Databases
    /\ StockIdle

Next ==
    \/ Request
    \/ Validate
    \/ GetPeriods
    \/ GetColumns
    \/ Query
    \/ BuildRows
    \/ ChartAndReturn
    \/ Finish

Spec == Init /\ [][Next]_vars

\* get_period_date_ranges alone, on every date range of the calendar above
InitPeriods ==
    /\ pc = "periods"
    /\ filters \in WideFilters
    /\ period_list = <<>>
    /\ columns = <<>>
    /\ agg_rows = <<>>
    /\ data = <<>>
    /\ chart = NoChart
    /\ result = <<>>
    /\ sql_calls = 0
    /\ db = {}
    /\ StockIdle

NextPeriods == GetPeriods

SpecPeriods == InitPeriods /\ [][NextPeriods]_vars

(***************************************************************************)
(* Stock report: limit resolution.  A Python str is a sequence of          *)
(* one-character strings; a limit value is [t |-> "int", v |-> n] or       *)
(* [t |-> "str", s |-> chars]; a resolved limit is <<>> (None) or <<n>>.   *)
(***************************************************************************)
Digits == <<"0", "1", "2", "3", "4", "5", "6", "7", "8", "9">>

IsDigit(c) == \E i \in 1..10 : Digits[i] = c
DigitVal(c) == (CHOOSE i \in 1..10 : Digits[i] = c) - 1
IsSpace(c) == c = " "

RECURSIVE LStrip(_)
LStrip(s) == IF s # <<>> /\ IsSpace(Head(s)) THEN LStrip(Tail(s)) ELSE s

RECURSIVE RStrip(_)
RStrip(s) ==
    IF s # <<>> /\ IsSpace(s[Len(s)]) THEN RStrip(SubSeq(s, 1, Len(s) - 1)) ELSE s

\* the value of a run of decimal digits, underscores skipped
RECURSIVE DigitsValue(_, _)
DigitsValue(s, acc) ==
    IF s = <<>> THEN acc
    ELSE IF Head(s) = "_" THEN DigitsValue(Tail(s), acc)
    ELSE DigitsValue(Tail(s), 10 * acc + DigitVal(Head(s)))

\* the digit part of an int() literal: digits, single underscores between them
IsIntBody(s) ==
    /\ s # <<>>
    /\ \A i \in 1..Len(s) : IsDigit(s[i]) \/ s[i] = "_"
    /\ IsDigit(s[1]) /\ IsDigit(s[Len(s)])
    /\ \A i \in 1..(Len(s) - 1) : ~(s[i] = "_" /\ s[i + 1] = "_")

\* int(s) for a str: <<n>>, or <<>> when it raises ValueError
IntOfStr(s) ==
    LET t    == RStrip(LStrip(s))
        sgn  == t # <<>> /\ Head(t) \in {"+", "-"}
        body == IF sgn THEN Tail(t) ELSE t
    IN  IF ~IsIntBody(body) THEN <<>>
        ELSE IF sgn /\ Head(t) = "-" THEN <<0 - DigitsValue(body, 0)>>
        ELSE <<DigitsValue(body, 0)>>

\* the longest run of digits that starts at the head of s
RECURSIVE DigitRun(_)
DigitRun(s) ==
    IF s # <<>> /\ IsDigit(Head(s)) THEN <<Head(s)>> \o DigitRun(Tail(s)) ELSE <<>>

\* re.search(r"\d+", s): the leftmost, longest match, <<>> for no match
RECURSIVE SearchDigits(_)
SearchDigits(s) ==
    IF s = <<>> THEN <<>>
    ELSE IF IsDigit(Head(s)) THEN DigitRun(s)
    ELSE SearchDigits(Tail(s))

\* bool(limit_value)
LimitTruthy(lv) == IF lv.t = "int" THEN lv.v # 0 ELSE lv.s # <<>>

\* limit_value = filters.get("limit") ... limit
ResolveLimit(f) ==
    IF ~Has(f, "limit") \/ ~LimitTruthy(f["limit"]) THEN <<>>
    ELSE LET lv == f["limit"]
         IN  IF lv.t = "int" THEN <<lv.v>>
             ELSE IF IntOfStr(lv.s) # <<>> THEN IntOfStr(lv.s)
             ELSE LET m == SearchDigits(lv.s)
                  IN  IF m # <<>> THEN <<DigitsValue(m, 0)>> ELSE <<>>

\* sort_by = filters.get("sort_by") or "Quantity"
SortBy(f) == OrDefault(Get(f, "sort_by", None), "Quantity")

\* mutant: the conditional is written the other way round
order_by_field_inverted(f) ==
    IF SortBy(f) = "Quantity" THEN "total_qty" ELSE "total_amount"

\* mutant: the sort_by filter is ignored
order_by_field_qty(f) == "total_qty"

order_by_field(f) == IF SortBy(f) = "Amount" THEN "total_amount" ELSE "total_qty"

(***************************************************************************)
(* Stock report: the query and its execution                               *)
(***************************************************************************)
\* the parts of the query text that vary, and its params
BuildQuery(f) ==
    [order_by_field |-> order_by_field(f),
     limit_clause   |-> ResolveLimit(f),
     ig_condition   |-> Truthy(f, "item_group"),
     params         |-> IF Truthy(f, "item_group")
                        THEN [item_group |-> f["item_group"]] ELSE EmptyDict]

\* WHERE si.docstatus = 1 {ig_condition}
StockWhere(q, line) ==
    /\ line.docstatus = 1
    /\ q.ig_condition => line.item_group = q.params["item_group"]

RECURSIVE SumField(_, _)
SumField(lines, fld) ==
    IF lines = {} THEN 0
    ELSE LET l == CHOOSE x \in lines : TRUE
         IN  l[fld] + SumField(lines \ {l}, fld)

\* GROUP BY sii.item_code, i.item_name, i.item_group, i.safety_stock
StockGroups(q, lines) ==
    LET scanned == {l \in lines : StockWhere(q, l)}
    IN  {[item_code    |-> code,
          item_group   |-> (CHOOSE l \in scanned : l.item_code = code).item_group,
          total_qty    |-> SumField({l \in scanned : l.item_code = code}, "qty"),
          total_amount |-> SumField({l \in scanned : l.item_code = code}, "amount")] :
         code \in {l.item_code : l \in scanned}}

\* ORDER BY {order_by_field} DESC: the orders the database may return, equal
\* values in any order
OrderedResults(q, lines) ==
    LET groups == StockGroups(q, lines)
        n      == Cardinality(groups)
    IN  {s \in [1..n -> groups] :
            /\ \A i, j \in 1..n : i # j => s[i] # s[j]
            /\ \A i \in 1..(n - 1) : s[i][q.order_by_field] >= s[i + 1][q.order_by_field]}

\* LIMIT n
ApplyLimit(rows, limit_clause) ==
    IF limit_clause = <<>> THEN rows
    ELSE SubSeq(rows, 1, Min(limit_clause[1], Len(rows)))

\* the database rejects the statement: LIMIT takes a non-negative count
QueryRejected(q) == q.limit_clause # <<>> /\ q.limit_clause[1] < 0

(***************************************************************************)
(* Stock report: inputs and execute()                                      *)
(***************************************************************************)
MaxLen == 3

Alphabet == {"0", "5", "-", " ", "a"}

Strings == UNION {[1..n -> Alphabet] : n \in 0..MaxLen}

ExampleStrings ==
    {<<"5", "0">>,
     <<"T", "o", "p", " ", "5", "0", " ", "i", "t", "e", "m", "s">>,
     <<"T", "o", "p", " ", "1", "0">>,
     <<"a", "b", "c">>,
     <<"+", "5">>,
     <<"1", "_", "0">>,
     <<"1", "_", "_", "0">>,
     <<"7", "a", "5", "0">>}

LimitValues ==
    {[t |-> "str", s |-> x] : x \in Strings \cup ExampleStrings}
    \cup {[t |-> "int", v |-> n] : n \in {-1, 0, 1, 2, 50}}

StockFilters ==
    {a @@ b @@ c :
        a \in Opt("sort_by", {"", "Quantity", "Amount", "Name"}),
        b \in Opt("limit", LimitValues),
        c \in Opt("item_group", {"Hardware"})}

StockLine(ds, code, grp, q, amt) ==
    [docstatus |-> ds, item_code |-> code, item_group |-> grp, qty |-> q, amount |-> amt]

StockLinePool ==
    {StockLine(1, "bolt", "Hardware", 1, 50),
     StockLine(1, "bolt", "Hardware", 2, 10),
     StockLine(1, "nut", "Hardware", 3, 20),
     StockLine(1, "saw", "Tools", 5, 5),
     StockLine(1, "gone", None, 3, 30),
     StockLine(0, "nut", "Hardware", 9, 90)}

StockDatabases == {ls \in SUBSET StockLinePool : Cardinality(ls) <= MaxLines}

\* the report host calls execute(filters)
StockRequest ==
    /\ spc = "idle"
    /\ \E f \in StockFilters : sfilters' = f
    /\ spc' = "called"
    /\ squery' = <<>>
    /\ srows' = <<>>
    /\ UNCHANGED <<sdb, salesVars>>

\* get_data(filters): resolve sort and limit, build the query, run it
GetData ==
    /\ spc = "called"
    /\ LET q == BuildQuery(sfilters)
       IN  /\ squery' = <<q>>
           /\ IF QueryRejected(q)
              THEN spc' = "error" /\ srows' = <<>>
              ELSE /\ spc' = "done"
                   /\ \E rows \in OrderedResults(q, sdb) :
                         srows' = ApplyLimit(rows, q.limit_clause)
    /\ UNCHANGED <<sfilters, sdb, salesVars>>

StockFinish ==
    /\ spc \in {"done", "error"}
    /\ spc' = "idle"
    /\ sfilters' = EmptyDict
    /\ squery' = <<>>
    /\ srows' = <<>>
    /\ UNCHANGED <<sdb, salesVars>>

InitStock ==
    /\ pc = "idle"
    /\ SalesIdle
    /\ db = {}
    /\ spc = "idle"
    /\ sfilters = EmptyDict
    /\ sdb \in StockDatabases
    /\ squery = <<>>
    /\ srows = <<>>

NextStock ==
    \/ StockRequest
    \/ GetData
    \/ StockFinish

SpecStock == InitStock /\ [][NextStock]_vars

(***************************************************************************)
(* Properties of the sales analytics report                                *)
(***************************************************************************)
PeriodsBuilt == pc \in {"columns", "query", "rows", "chart", "done"}
RowsBuilt == pc \in {"chart", "done"}

QuarterExample ==
    /\ filters["from_date"] = <<2025, 1, 15>>
    /\ filters["to_date"] = <<2025, 12, 31>>
    /\ filters["period"] = "Quarterly"

\* C1: for from_date <= to_date and each of the four periods,
\* get_period_date_ranges returns a non-empty bucket list that partitions
\* [from_date, to_date]: it starts at from_date, every bucket has
\* from_date <= to_date, each bucket starts the day after the previous one ends,
\* and the last ends at to_date; from_date = to_date gives one bucket and
\* 2025-01-15..2025-12-31 Quarterly gives four, the last ending on 12-31.
C1_BucketsPartitionRange ==
    PeriodsBuilt =>
        LET pl == period_list
            n  == Len(pl)
        IN  /\ n >= 1
            /\ pl[1].from_date = filters["from_date"]
            /\ \A i \in 1..n : DateLE(pl[i].from_date, pl[i].to_date)
            /\ \A i \in 1..(n - 1) : pl[i + 1].from_date = NextDay(pl[i].to_date)
            /\ pl[n].to_date = filters["to_date"]
            /\ (filters["from_date"] = filters["to_date"] => n = 1)
            /\ (QuarterExample => n = 4 /\ pl[4].to_date = <<2025, 12, 31>>)

C1_Witness ==
    /\ PeriodsBuilt
    /\ QuarterExample
    /\ Len(period_list) = 4
    /\ period_list[1].to_date = <<2025, 4, 14>>
    /\ period_list[4].from_date = <<2025, 10, 15>>
    /\ period_list[4].to_date = <<2025, 12, 31>>

\* the child rows emitted directly after the group row at position i
RECURSIVE ChildrenAfter(_, _)
ChildrenAfter(rows, i) ==
    IF i + 1 > Len(rows) \/ rows[i + 1].indent # 1 THEN <<>>
    ELSE <<rows[i + 1]>> \o ChildrenAfter(rows, i + 1)

Column(rows, k) == [j \in 1..Len(rows) |-> rows[j][k]]

\* C2: in the output of build_hierarchical_rows every group row's total is the
\* sum of the totals of the child rows that follow it up to the next group row,
\* and so is its value for every bucket key.
C2_GroupRowIsSumOfChildren ==
    RowsBuilt =>
        \A i \in 1..Len(data) :
            data[i].indent = 0 =>
                LET kids == ChildrenAfter(data, i)
                IN  /\ data[i].total = SumSeq(Column(kids, "total"))
                    /\ \A k \in PeriodKeys(period_list) :
                          data[i][k] = SumSeq(Column(kids, k))

C2_Witness ==
    /\ RowsBuilt
    /\ \E i \in 1..Len(data) :
          /\ data[i].indent = 0
          /\ Len(ChildrenAfter(data, i)) = 2
          /\ \E k \in PeriodKeys(period_list) :
                /\ data[i + 1][k] > 0
                /\ data[i + 2][k] > 0
                /\ data[i][k] = data[i + 1][k] + data[i + 2][k]

DatesReversed ==
    /\ Has(filters, "from_date")
    /\ Has(filters, "to_date")
    /\ DateLT(filters["to_date"], filters["from_date"])

\* C4: when to_date < from_date, execute ends in the validation error before
\* the aggregation query: the query never runs and no columns, rows or chart
\* are produced or returned.
C4_ReversedDatesNeverQuery ==
    DatesReversed =>
        /\ pc \in {"validate", "error"}
        /\ sql_calls = 0
        /\ columns = <<>>
        /\ data = <<>>
        /\ chart = NoChart
        /\ result = <<>>

C4_Witness ==
    /\ DatesReversed
    /\ pc = "error"
    /\ db # {}

\* C7: the chart's labels and values have one entry per bucket, in bucket
\* order, and values[i] is the sum of bucket i's column over all display rows,
\* which is twice the sum over the child rows.
C7_ChartSumsAllRows ==
    pc = "done" =>
        LET n == Len(period_list)
            leaf(k) == [j \in 1..Len(data) |->
                           IF data[j].indent = 1 THEN data[j][k] ELSE 0]
        IN  /\ Len(chart.labels) = n
            /\ Len(chart.values) = n
            /\ \A i \in 1..n :
                  /\ chart.labels[i] = period_list[i].label
                  /\ chart.values[i] = SumSeq(Column(data, period_list[i].key))
                  /\ chart.values[i] = 2 * SumSeq(leaf(period_list[i].key))

C7_Witness ==
    /\ pc = "done"
    /\ Len(chart.values) >= 2
    /\ \E i, j \in 1..Len(chart.values) :
          i # j /\ chart.values[i] > 0 /\ chart.values[j] > 0

ChildRowsOf(rows) == SelectSeq(rows, LAMBDA r : r.indent = 1)
GroupRowsOf(rows) == SelectSeq(rows, LAMBDA r : r.indent = 0)

\* C8: build_hierarchical_rows emits exactly one child row per aggregate row,
\* so the child totals, and the group totals, add up to the aggregate rows'
\* totals: no aggregate row is dropped or overwritten when a null or empty
\* label is replaced by its placeholder.
C8_NoAggregateRowLost ==
    RowsBuilt =>
        /\ Len(ChildRowsOf(data)) = Len(agg_rows)
        /\ SumSeq(Column(ChildRowsOf(data), "total")) = SumSeq(Column(agg_rows, "total"))
        /\ SumSeq(Column(GroupRowsOf(data), "total")) = SumSeq(Column(agg_rows, "total"))

InBucket(d, p) == DateLE(p.from_date, d) /\ DateLE(d, p.to_date)

ProbeDates == DatesOn(1..31)

\* C9: every posting date in [from_date, to_date] satisfies the BETWEEN
\* condition of exactly one bucket column and no date outside satisfies any,
\* so in every row of get_aggregated_rows total is the sum of the bucket columns.
C9_TotalIsSumOfBuckets ==
    pc = "rows" =>
        /\ \A d \in ProbeDates :
              Cardinality({i \in 1..Len(period_list) : InBucket(d, period_list[i])})
                  = IF DateLE(filters["from_date"], d) /\ DateLE(d, filters["to_date"])
                    THEN 1 ELSE 0
        /\ \A j \in 1..Len(agg_rows) :
              agg_rows[j].total
                  = SumSeq([i \in 1..Len(period_list) |-> agg_rows[j][period_list[i].key]])

C9_Witness ==
    /\ pc = "rows"
    /\ \E l \in db : l.docstatus = 1 /\ DateLT(filters["to_date"], l.posting_date)
    /\ \E j \in 1..Len(agg_rows) :
          \E a, b \in 1..Len(period_list) :
              /\ a # b
              /\ agg_rows[j][period_list[a].key] > 0
              /\ agg_rows[j][period_list[b].key] > 0

(***************************************************************************)
(* Properties of the stock report                                          *)
(***************************************************************************)
StockEnded == spc \in {"done", "error"}

LimitAbsent == ~Has(sfilters, "limit")
LimitIsEmpty ==
    /\ Has(sfilters, "limit")
    /\ \/ sfilters["limit"].t = "str" /\ sfilters["limit"].s = <<>>
       \/ sfilters["limit"].t = "int" /\ sfilters["limit"].v = 0
LimitString(x) == Has(sfilters, "limit") /\ sfilters["limit"] = [t |-> "str", s |-> x]
HasDigit(x) == \E i \in 1..Len(x) : IsDigit(x[i])
Resolved == squery[1].limit_clause

\* C3: an absent or empty limit resolves to no limit, a value that parses as
\* an integer to that integer, any other value to its first run of digits, a
\* value without digits to no limit ("50" and "Top 50 items" give 50; "", an
\* absent limit and "abc" give no limit), and no limit value makes the report
\* fail.
C3_LimitResolution ==
    StockEnded =>
        /\ spc # "error"
        /\ (LimitAbsent \/ LimitIsEmpty) => Resolved = <<>>
        /\ \A n \in -60..60 :
              (Has(sfilters, "limit") /\ ~LimitIsEmpty
               /\ \/ sfilters["limit"] = [t |-> "int", v |-> n]
                  \/ sfilters["limit"].t = "str" /\ IntOfStr(sfilters["limit"].s) = <<n>>)
                 => Resolved = <<n>>
        /\ (Has(sfilters, "limit") /\ sfilters["limit"].t = "str"
            /\ IntOfStr(sfilters["limit"].s) = <<>>)
              => IF HasDigit(sfilters["limit"].s)
                 THEN Resolved = <<DigitsValue(SearchDigits(sfilters["limit"].s), 0)>>
                 ELSE Resolved = <<>>
        /\ LimitString(<<"5", "0">>) => Resolved = <<50>>
        /\ LimitString(<<"T", "o", "p", " ", "5", "0", " ", "i", "t", "e", "m", "s">>)
              => Resolved = <<50>>
        /\ LimitString(<<"a", "b", "c">>) => Resolved = <<>>

NonIncreasing(rows, fld) ==
    \A i \in 1..(Len(rows) - 1) : rows[i][fld] >= rows[i + 1][fld]

\* the item codes with a submitted line that passes the item_group filter
MatchingItems ==
    {l.item_code : l \in {x \in sdb :
        /\ x.docstatus = 1
        /\ (Has(sfilters, "item_group") /\ sfilters["item_group"] # "")
              => x.item_group = sfilters["item_group"]}}

\* C5: the rows are sorted descending by total_amount when sort_by is Amount
\* and by total_qty when it is Quantity or absent; with a resolved limit L at
\* most L rows are returned, with no limit one row for every matching item.
C5_SortedAndLimited ==
    spc = "done" =>
        /\ (Has(sfilters, "sort_by") /\ sfilters["sort_by"] = "Amount")
              => NonIncreasing(srows, "total_amount")
        /\ (~Has(sfilters, "sort_by") \/ sfilters["sort_by"] = "Quantity")
              => NonIncreasing(srows, "total_qty")
        /\ Resolved # <<>> => Len(srows) <= Resolved[1]
        /\ Resolved = <<>> =>
              /\ {srows[i].item_code : i \in 1..Len(srows)} = MatchingItems
              /\ Len(srows) = Cardinality(MatchingItems)

C5_Witness ==
    /\ spc = "done"
    /\ Has(sfilters, "sort_by") /\ sfilters["sort_by"] = "Amount"
    /\ Resolved = <<2>>
    /\ Cardinality(MatchingItems) = 3
    /\ Len(srows) = 2
    /\ srows[1].total_amount > srows[2].total_amount
    /\ srows[1].total_qty < srows[2].total_qty

SortByUnknown ==
    /\ Has(sfilters, "sort_by")
    /\ sfilters["sort_by"] \notin {"Quantity", "Amount"}

\* C6 as stated: a sort_by outside {Quantity, Amount} ends the request with a
\* validation error: no query is executed and no rows are returned.
C6_UnknownSortRejected ==
    SortByUnknown =>
        /\ spc \in {"called", "error"}
        /\ squery = <<>>
        /\ srows = <<>>

\* C6 as amended: a sort_by outside {Quantity, Amount} is not rejected; it is
\* treated as Quantity: the query is built and executed with ORDER BY
\* total_qty DESC, and the rows returned are in that order.
C6_UnknownSortFallsBackToQuantity ==
    (StockEnded /\ SortByUnknown) =>
        /\ squery # <<>>
        /\ squery[1].order_by_field = "total_qty"
        /\ spc = "error" => QueryRejected(squery[1])
        /\ spc = "done" => NonIncreasing(srows, "total_qty")

C6_Witness ==
    /\ spc = "done"
    /\ Has(sfilters, "sort_by") /\ sfilters["sort_by"] = "Name"
    /\ Len(srows) = 2
    /\ srows[1].total_qty > srows[2].total_qty
    /\ srows[1].total_amount < srows[2].total_amount

\* C10: whenever the stock report emits a LIMIT clause the embedded value is a
\* non-negative integer.
C10_LimitNeverNegative ==
    (squery # <<>> /\ squery[1].limit_clause # <<>>) => squery[1].limit_clause[1] >= 0

====
